---- MODULE Spec2Model ----
(***************************************************************************)
(* A model of the Fantasy Premier League analysis tool (src/main.py):      *)
(* the season snapshot loader, the per-player gameweek series and its      *)
(* window aggregations, the ranking functions, the single-player views and *)
(* the menu loop of main() with the answers typed at its prompts.          *)
(*                                                                         *)
(* Data frames are sequences of records (one record per row, in row        *)
(* order).  Strings that the code transforms (position names) are          *)
(* sequences of one-character strings, so that str.capitalize() is         *)
(* computed and not assumed.  Floating point quotients are exact           *)
(* fractions [num, den]; den = 0 stands for the IEEE results of a          *)
(* division by 0.0 (inf, or NaN for 0/0).                                  *)
(***************************************************************************)
EXTENDS Integers, Sequences, FiniteSets, TLC

VARIABLES
    pc,          \* position in main(): "start" | "menu" | "wait" | "failed" | "raised"
    bootstrap,   \* what GET bootstrap-static/ answers
    summaries,   \* what GET element-summary/<id>/ answers, per player id
    players_df,  \* the session's player collection (global players_df)
    call,        \* the function called last, with its arguments
    out,         \* what that call printed or plotted
    snapshot_fetches,  \* number of GET bootstrap-static/ requests made so far
    series_fetches     \* player ids of the GET element-summary/<id>/ requests
                       \* made by that call, in request order

vars == <<pc, bootstrap, summaries, players_df, call, out, snapshot_fetches,
          series_fetches>>

----------------------------------------------------------------------------
(* Bounds of the model *)

MaxPlayers == 2      \* players in a snapshot whose season fields vary
MaxRound == 4        \* highest round number of a gameweek series
MaxTopN == 2         \* highest result limit passed to a ranking function
MaxFormPlayers == 2  \* players of the snapshots whose gameweek series vary
MaxFormRound == 2    \* highest round of those players' series

----------------------------------------------------------------------------
(* Generic helpers *)

Range(s) == {s[i] : i \in 1..Len(s)}

Max2(a, b) == IF a >= b THEN a ELSE b

Min2(a, b) == IF a <= b THEN a ELSE b

RECURSIVE SumSeq(_)
SumSeq(s) == IF s = <<>> THEN 0 ELSE Head(s) + SumSeq(Tail(s))

\* All sequences over S of length 0..n.
SeqsUpTo(S, n) == UNION {[1..k -> S] : k \in 0..n}

----------------------------------------------------------------------------
(* Strings: str.capitalize() and the position names *)

Lowers == <<"a", "d", "e", "f", "g", "i", "k", "l", "m", "n", "o", "p", "r", "s", "w">>
Uppers == <<"A", "D", "E", "F", "G", "I", "K", "L", "M", "N", "O", "P", "R", "S", "W">>

ToUpper(c) ==
    IF \E i \in 1..Len(Lowers) : Lowers[i] = c
    THEN Uppers[CHOOSE i \in 1..Len(Lowers) : Lowers[i] = c]
    ELSE c

ToLower(c) ==
    IF \E i \in 1..Len(Uppers) : Uppers[i] = c
    THEN Lowers[CHOOSE i \in 1..Len(Uppers) : Uppers[i] = c]
    ELSE c

\* Python str.capitalize(): first character upper-cased, the rest lower-cased.
CapitalizeFirstOnly(s) == [i \in 1..Len(s) |-> IF i = 1 THEN ToUpper(s[i]) ELSE s[i]]
Capitalize(s) == [i \in 1..Len(s) |-> IF i = 1 THEN ToUpper(s[i]) ELSE ToLower(s[i])]

\* Python str.lower()
StrLower(s) == [i \in 1..Len(s) |-> ToLower(s[i])]

Goalkeeper == <<"G", "o", "a", "l", "k", "e", "e", "p", "e", "r">>
Defender == <<"D", "e", "f", "e", "n", "d", "e", "r">>
Midfielder == <<"M", "i", "d", "f", "i", "e", "l", "d", "e", "r">>
Forward == <<"F", "o", "r", "w", "a", "r", "d">>
Manager == <<"M", "a", "n", "a", "g", "e", "r">>

\* valid_positions = ['Goalkeeper', 'Defender', 'Midfielder', 'Forward']
valid_positions == <<Goalkeeper, Defender, Midfielder, Forward>>

\* The value of a position cell with no data (pandas NaN), kept distinct
\* from every string.
NaNPosition == <<"nan">>

\* An optional argument is None, written <<>>, or <<v>> for the value v.
None == <<>>

Some(v) == <<v>>

Val(x) == x[1]

----------------------------------------------------------------------------
(* Numbers: Python truthiness and float64 quotients as exact fractions *)

\* `if x:` on an int-or-None argument: None and 0 are both false.
Truthy(x) == x /= None /\ Val(x) /= 0

\* n / d in float64, d >= 0: [num, den]; x / 0.0 is inf (den = 0) and
\* 0 / 0.0 is NaN.
Div(n, d) == [num |-> n, den |-> d]

\* The value of a numeric cell with no data.
NaN == [num |-> 0, den |-> 0]

\* An integer column value as a sort key.
IntKey(n) == [num |-> n, den |-> 1]

IsNaN(k) == k.num = 0 /\ k.den = 0

\* a < b for two non-NaN keys.
FLess(a, b) ==
    CASE a.den = 0 /\ b.den = 0 -> a.num < 0 /\ b.num > 0
      [] a.den = 0 /\ b.den /= 0 -> a.num < 0
      [] a.den /= 0 /\ b.den = 0 -> b.num > 0
      [] OTHER -> a.num * b.den < b.num * a.den

FEq(a, b) == ~FLess(a, b) /\ ~FLess(b, a)

----------------------------------------------------------------------------
(* pandas operations *)

Injective(p) == \A i, j \in DOMAIN p : i /= j => p[i] /= p[j]

Permute(df, p) == [i \in 1..Len(df) |-> df[p[i]]]

\* The number of keys that are not NaN.
NonNaNCount(keys) == Cardinality({i \in 1..Len(keys) : ~IsNaN(keys[i])})

\* DataFrame.sort_values(by=<one column>, ascending=False), keys[i] being the
\* cell of row i in that column: the orders p (row p[i] comes i-th) the sort
\* can give.  Rows without a key (NaN) go last, in row order.  The others
\* come greatest key first; kind defaults to 'quicksort', which pandas
\* documents as not stable, so the order of rows of equal key is not fixed by
\* the call and every such order is allowed here.
DescendingOrders(keys) ==
    LET n == Len(keys)
        m == NonNaNCount(keys)
    IN {p \in [1..n -> 1..n] :
            /\ Injective(p)
            /\ \A i \in 1..m : ~IsNaN(keys[p[i]])
            /\ \A i, j \in 1..m : i < j => ~FLess(keys[p[i]], keys[p[j]])
            /\ \A i, j \in (m+1)..n : i < j => p[i] < p[j]}

SortValuesDesc(df, keys) == {Permute(df, p) : p \in DescendingOrders(keys)}

\* `if top_n > 0: df = df.head(top_n)`
HeadAlways(df, top_n) == SubSeq(df, 1, Min2(Max2(top_n, 0), Len(df)))
HeadIfPositive(df, top_n) ==
    IF top_n > 0 THEN SubSeq(df, 1, Min2(top_n, Len(df))) ELSE df

\* gw.sort_values(by='round'), for a series whose rounds are distinct.
RECURSIVE InsertByRound(_, _)
InsertByRound(e, s) ==
    IF s = <<>> THEN <<e>>
    ELSE IF e.round <= Head(s).round THEN <<e>> \o s
         ELSE <<Head(s)>> \o InsertByRound(e, Tail(s))

RECURSIVE SortByRound(_)
SortByRound(gw) ==
    IF gw = <<>> THEN <<>> ELSE InsertByRound(Head(gw), SortByRound(Tail(gw)))

Reverse(s) == [i \in 1..Len(s) |-> s[Len(s) + 1 - i]]

\* gw.nlargest(n, 'round'): the n rows of greatest round, greatest first.
NSmallest(gw, n) == SubSeq(SortByRound(gw), 1, Min2(Max2(n, 0), Len(gw)))
NLargest(gw, n) == SubSeq(Reverse(SortByRound(gw)), 1, Min2(Max2(n, 0), Len(gw)))

----------------------------------------------------------------------------
(* Data loading: load_fpl_data and get_gameweek_history *)

\* position_map = dict(zip(ids, names)) looked up by Series.map: the last
\* entry of the table with that id, NaN when the table has none.
PositionMap(types, t) ==
    LET hits == {i \in 1..Len(types) : types[i].id = t}
    IN IF hits = {} THEN NaNPosition
       ELSE types[CHOOSE i \in hits : \A j \in hits : j <= i].singular_name

\* One row of `players` after the added and renamed columns.
PlayerRow(e, types) ==
    [Player_ID |-> e.id,
     Position |-> PositionMap(types, e.element_type),
     Cost |-> Div(e.now_cost, 10),
     Selected_By |-> Div(e.selected_by_percent, 10),
     Total_Points |-> e.total_points]

AllRows(b) == [i \in 1..Len(b.elements) |-> PlayerRow(b.elements[i], b.element_types)]

\* players_cleaned = players[players['position'] != 'Manager']
LoadKeepsManagers(b) == AllRows(b)
load_fpl_data(b) == SelectSeq(AllRows(b), LAMBDA r : r.Position /= Manager)

\* A failed request, a reply that is no JSON or has no 'history' key, and an
\* empty history all give an empty frame.
get_gameweek_history(pid) ==
    IF pid \notin DOMAIN summaries THEN <<>>
    ELSE IF ~summaries[pid].ok THEN <<>>
         ELSE summaries[pid].history

----------------------------------------------------------------------------
(* The position filter shared by the ranking functions *)

\* `if position:` on a str-or-None argument: None and '' are both false,
\* and both are written <<>>.
StrTruthy(position) == position /= <<>>

IsValidPosition(position) == Capitalize(position) \in Range(valid_positions)

\* df[df['Position'] == position.capitalize()]
FilterPosition(df, position) ==
    SelectSeq(df, LAMBDA r : r.Position = Capitalize(position))

\* pd.merge(df, other, on='Player ID'): inner join in the order of df; the
\* Player IDs of each frame are distinct.
MergeOnPlayerID(df, other) ==
    LET matched == SelectSeq(df, LAMBDA r :
                       \E i \in 1..Len(other) : other[i].Player_ID = r.Player_ID)
        Match(r) == other[CHOOSE i \in 1..Len(other) : other[i].Player_ID = r.Player_ID]
    IN [i \in 1..Len(matched) |-> matched[i] @@ Match(matched[i])]

\* What a ranking function leaves behind.
Table(rows, column) == [status |-> "table", rows |-> rows, column |-> column]
InvalidPosition == [status |-> "invalid_position", rows |-> <<>>, column |-> None]
Raised == [status |-> "raised", rows |-> <<>>, column |-> None]

----------------------------------------------------------------------------
(* Window selection of a gameweek series *)

\* f"GW {a}-{b}" and f"Last {n} GW": the text of a period description.
PeriodRange(a, b) == [kind |-> "GW", a |-> a, b |-> b]
PeriodLast(n) == [kind |-> "Last", a |-> n, b |-> 0]

RoundMax(gw) == CHOOSE m \in {gw[i].round : i \in 1..Len(gw)} :
                    \A i \in 1..Len(gw) : gw[i].round <= m

\* The if / elif / else that picks the rows of the period; the same text in
\* show_top_form_players, show_player_form_analysis and plot_form_comparison.
PeriodGws(gw, last_n, from_gameweek, to_gameweek) ==
    IF Truthy(from_gameweek) /\ Truthy(to_gameweek)
    THEN SelectSeq(gw, LAMBDA e :
             e.round >= Val(from_gameweek) /\ e.round <= Val(to_gameweek))
    ELSE IF Truthy(from_gameweek)
         THEN SelectSeq(gw, LAMBDA e : e.round >= Val(from_gameweek))
         ELSE NLargest(gw, last_n)

PeriodDesc(gw, last_n, from_gameweek, to_gameweek) ==
    IF Truthy(from_gameweek) /\ Truthy(to_gameweek)
    THEN PeriodRange(Val(from_gameweek), Val(to_gameweek))
    ELSE IF Truthy(from_gameweek)
         THEN LET period_gws == PeriodGws(gw, last_n, from_gameweek, to_gameweek)
                  max_gw == IF period_gws /= <<>> THEN RoundMax(period_gws)
                            ELSE Val(from_gameweek)
              IN PeriodRange(Val(from_gameweek), max_gw)
         ELSE PeriodLast(last_n)

Points(gw) == SumSeq([i \in 1..Len(gw) |-> gw[i].total_points])

\* len(gw[gw['minutes'] > 0])
GamesPlayed(gw) == Len(SelectSeq(gw, LAMBDA e : e.minutes > 0))

----------------------------------------------------------------------------
(* Ranking functions.  Each gives the set of outputs the call can have: one *)
(* output per order the sort may leave rows of equal key in.               *)

Column(name) == [kind |-> name, a |-> 0, b |-> 0]

\* The rows of df whose player has a non-empty gameweek frame
\* (`if gw_hist.empty: continue`).
WithSeries(df) ==
    SelectSeq(df, LAMBDA r : get_gameweek_history(r.Player_ID) /= <<>>)

\* temp_data of show_top_players: points summed over the rounds <= up_to.
TempDataOfAll(df, up_to) ==
    [i \in 1..Len(df) |->
       [Player_ID |-> df[i].Player_ID,
        Points_to_GW |-> Points(SelectSeq(get_gameweek_history(df[i].Player_ID),
                                           LAMBDA e : e.round <= up_to))]]
TempData(df, up_to) ==
    LET kept == WithSeries(df)
    IN [i \in 1..Len(kept) |->
          [Player_ID |-> kept[i].Player_ID,
           Points_to_GW |-> Points(SelectSeq(get_gameweek_history(kept[i].Player_ID),
                                              LAMBDA e : e.round <= up_to))]]

show_top_players(df0, up_to_gameweek, top_n, position) ==
    IF StrTruthy(position) /\ ~IsValidPosition(position) THEN {InvalidPosition}
    ELSE
      LET df == IF StrTruthy(position) THEN FilterPosition(df0, position) ELSE df0
      IN IF Truthy(up_to_gameweek)
         THEN LET temp_df == TempData(df, Val(up_to_gameweek))
                  merged == MergeOnPlayerID(df, temp_df)
              IN IF temp_df = <<>> THEN {Raised}  \* merge: KeyError 'Player ID'
                 ELSE {Table(HeadIfPositive(sorted, top_n), Column("Points to GW")) :
                         sorted \in SortValuesDesc(merged, [i \in 1..Len(merged) |-> IntKey(merged[i].Points_to_GW)])}
         ELSE {Table(HeadIfPositive(sorted, top_n), Column("Total Points")) :
                 sorted \in SortValuesDesc(df, [i \in 1..Len(df) |-> IntKey(df[i].Total_Points)])}

show_top_by_pick_rate(df0, top_n, position) ==
    IF StrTruthy(position) /\ ~IsValidPosition(position) THEN {InvalidPosition}
    ELSE
      LET df == IF StrTruthy(position) THEN FilterPosition(df0, position) ELSE df0
      IN {Table(HeadIfPositive(sorted, top_n), Column("Selected By (%)")) :
            sorted \in SortValuesDesc(df, [i \in 1..Len(df) |-> df[i].Selected_By])}

\* df['Total Points'] / df['Cost (Million £)']
ValueInverted(r) == Div(r.Cost.num, r.Total_Points * r.Cost.den)
Value(r) == Div(r.Total_Points * r.Cost.den, r.Cost.num)

\* df[df['Total Points'] >= min_points]
MinPoints(df, min_points) ==
    SelectSeq(df, LAMBDA r : r.Total_Points >= min_points)

show_top_value_for_money(df0, top_n, position, min_points) ==
    LET df1 == MinPoints(df0, min_points)
    IN IF StrTruthy(position) /\ ~IsValidPosition(position) THEN {InvalidPosition}
       ELSE
         LET df2 == IF StrTruthy(position) THEN FilterPosition(df1, position) ELSE df1
             df == [i \in 1..Len(df2) |-> df2[i] @@ [Value |-> Value(df2[i])]]
         IN {Table(HeadIfPositive(sorted, top_n), Column("Value (Pts/£m)")) :
               sorted \in SortValuesDesc(df, [i \in 1..Len(df) |-> df[i].Value])}

\* The frame of show_top_value_for_money before the sort: players_df.copy()
\* filtered, with the value column added to it.
ValueFrame(df0, position, min_points) ==
    LET df1 == MinPoints(df0, min_points)
        df2 == IF StrTruthy(position) /\ IsValidPosition(position)
               THEN FilterPosition(df1, position) ELSE df1
    IN [i \in 1..Len(df2) |-> df2[i] @@ [Value |-> Value(df2[i])]]

\* The session's frame after a query made on `players_df.copy()`: the filters
\* and the column the query adds are applied to the copy.
FrameSharedWithQuery(session_df, query_df) == query_df
FrameAfterQuery(session_df, query_df) == session_df

show_players_by_position(df0, position) ==
    IF ~IsValidPosition(position) THEN {InvalidPosition}
    ELSE LET filtered == FilterPosition(df0, position)
         IN {Table(sorted, Column("Total Points")) :
               sorted \in SortValuesDesc(filtered,
                   [i \in 1..Len(filtered) |-> IntKey(filtered[i].Total_Points)])}

\* avg_points = form_points / max(games_played, 1) if games_played > 0 else 0
FormAvg(form_points, games_played) ==
    IF games_played > 0 THEN Div(form_points, Max2(games_played, 1)) ELSE IntKey(0)

\* One dict of form_data.
FormRow(pid, last_n, from_gameweek, to_gameweek) ==
    LET gw_hist == get_gameweek_history(pid)
        period_gws == PeriodGws(gw_hist, last_n, from_gameweek, to_gameweek)
    IN [Player_ID |-> pid,
        period_desc |-> PeriodDesc(gw_hist, last_n, from_gameweek, to_gameweek),
        Period_Points |-> Points(period_gws),
        Games_Played |-> GamesPlayed(period_gws),
        Avg_Points |-> FormAvg(Points(period_gws), GamesPlayed(period_gws))]

FormData(df, last_n, from_gameweek, to_gameweek) ==
    LET kept == WithSeries(df)
    IN [i \in 1..Len(kept) |->
          FormRow(kept[i].Player_ID, last_n, from_gameweek, to_gameweek)]

\* The cell of row r in the column f'{period_desc} Points': each dict of
\* form_data names its points column after its own period_desc, so
\* pd.DataFrame(form_data) leaves NaN where a row has another description.
PointsCell(r, period_desc) ==
    IF r.period_desc = period_desc THEN IntKey(r.Period_Points) ELSE NaN

show_top_form_players(df0, top_n, position, last_n, from_gameweek, to_gameweek) ==
    IF StrTruthy(position) /\ ~IsValidPosition(position) THEN {InvalidPosition}
    ELSE
      LET df == IF StrTruthy(position) THEN FilterPosition(df0, position) ELSE df0
          form_df == FormData(df, last_n, from_gameweek, to_gameweek)
      IN IF form_df = <<>> THEN {Raised}  \* merge: KeyError 'Player ID'
         ELSE
           \* period_desc is what the last pass of the loop left in it
           LET period_desc == form_df[Len(form_df)].period_desc
               merged == MergeOnPlayerID(df, form_df)
           IN {Table(HeadIfPositive(sorted, top_n), period_desc) :
                 sorted \in SortValuesDesc(merged,
                     [i \in 1..Len(merged) |-> PointsCell(merged[i], period_desc)])}

\* The ids for which the `for pid in df['Player ID']` loops call
\* get_gameweek_history, in call order: every player of the frame left by the
\* position filter, when the function gets as far as the loop.
PlayerIDs(df) == [i \in 1..Len(df) |-> df[i].Player_ID]

RequestsBeforePositionCheck(df0, up_to_gameweek, position) ==
    IF Truthy(up_to_gameweek) THEN PlayerIDs(df0) ELSE <<>>
Requests_show_top_players(df0, up_to_gameweek, position) ==
    IF StrTruthy(position) /\ ~IsValidPosition(position) THEN <<>>
    ELSE IF Truthy(up_to_gameweek)
         THEN PlayerIDs(IF StrTruthy(position) THEN FilterPosition(df0, position) ELSE df0)
         ELSE <<>>

RequestsOfNone(df0, position) == <<>>
Requests_show_top_form_players(df0, position) ==
    IF StrTruthy(position) /\ ~IsValidPosition(position) THEN <<>>
    ELSE PlayerIDs(IF StrTruthy(position) THEN FilterPosition(df0, position) ELSE df0)

----------------------------------------------------------------------------
(* Single-player form analysis and the multi-player form chart *)

\* mid_point = len(period_sorted) // 2
MidPoint(n) == n \div 2

\* The form trend: mean points of the rows after the mid point against the
\* mean points of the rows before it, in round order.
TrendFromThree(period_gws) ==
    IF Len(period_gws) >= 3
    THEN LET period_sorted == SortByRound(period_gws)
             n == Len(period_sorted)
             early_period == Div(Points(SubSeq(period_sorted, 1, MidPoint(n))), MidPoint(n))
             late_period == Div(Points(SubSeq(period_sorted, MidPoint(n) + 1, n)),
                                n - MidPoint(n))
         IN IF FLess(early_period, late_period) THEN "Improving"
            ELSE IF FLess(late_period, early_period) THEN "Declining"
                 ELSE "Stable"
    ELSE "Insufficient data"
Trend(period_gws) ==
    IF Len(period_gws) >= 4
    THEN LET period_sorted == SortByRound(period_gws)
             n == Len(period_sorted)
             early_period == Div(Points(SubSeq(period_sorted, 1, MidPoint(n))), MidPoint(n))
             late_period == Div(Points(SubSeq(period_sorted, MidPoint(n) + 1, n)),
                                n - MidPoint(n))
         IN IF FLess(early_period, late_period) THEN "Improving"
            ELSE IF FLess(late_period, early_period) THEN "Declining"
                 ELSE "Stable"
    ELSE "Insufficient data"

\* avg = points / max(games, 1)
AvgUnguarded(points, games) == Div(points, games)
Avg(points, games) == Div(points, Max2(games, 1))

NoData == [status |-> "no_data"]

NoPeriodData(period_desc) == [status |-> "no_period_data", period_desc |-> period_desc]

show_player_form_analysis(player_id, last_n, from_gameweek, to_gameweek) ==
    LET fetched == get_gameweek_history(player_id)
    IN IF fetched = <<>> THEN NoData
       ELSE
         LET gw == SortByRound(fetched)
             period_gws == PeriodGws(gw, last_n, from_gameweek, to_gameweek)
             period_desc == PeriodDesc(gw, last_n, from_gameweek, to_gameweek)
         IN IF period_gws = <<>> THEN NoPeriodData(period_desc)
            ELSE [status |-> "analysis",
                  total_points |-> Points(gw),
                  games_played |-> GamesPlayed(gw),
                  avg_points |-> Avg(Points(gw), GamesPlayed(gw)),
                  period_desc |-> period_desc,
                  period_points |-> Points(period_gws),
                  period_games |-> GamesPlayed(period_gws),
                  period_avg |-> Avg(Points(period_gws), GamesPlayed(period_gws)),
                  trend |-> Trend(period_gws),
                  display_gws |-> Reverse(SortByRound(period_gws))]

\* The line plotted for one player: its rounds and points in round order.
PlotLine(player_id, period_gws) ==
    LET sorted == SortByRound(period_gws)
    IN [Player_ID |-> player_id,
        rounds |-> [i \in 1..Len(sorted) |-> sorted[i].round],
        points |-> [i \in 1..Len(sorted) |-> sorted[i].total_points]]

plot_form_comparison(player_ids, last_n, from_gameweek, to_gameweek) ==
    LET fetched == SelectSeq(player_ids, LAMBDA id : get_gameweek_history(id) /= <<>>)
        Period(id) == PeriodGws(get_gameweek_history(id), last_n, from_gameweek, to_gameweek)
        plotted == SelectSeq(fetched, LAMBDA id : Period(id) /= <<>>)
    IN IF fetched = <<>> THEN [status |-> "raised"]  \* period_desc was never bound
       ELSE [status |-> "plot",
             lines |-> [i \in 1..Len(plotted) |-> PlotLine(plotted[i], Period(plotted[i]))],
             title |-> PeriodDesc(get_gameweek_history(fetched[Len(fetched)]),
                                  last_n, from_gameweek, to_gameweek)]

----------------------------------------------------------------------------
(* Single-player history, statistics and charts *)

\* players_df[players_df['Player ID'] == player_id] is not empty.
KnownPlayer(df, player_id) == \E i \in 1..Len(df) : df[i].Player_ID = player_id

\* get_player_name: the name of the record, or "Player <id> (ID not found)".
get_player_name(player_id, df) ==
    [Player_ID |-> player_id, found |-> KnownPlayer(df, player_id)]

\* The rows of the history table, as fetched.
show_player_history(player_id, df) ==
    LET gw == get_gameweek_history(player_id)
    IN IF gw = <<>> THEN NoData
       ELSE [status |-> "history", name |-> get_player_name(player_id, df), rows |-> gw]

NoGameweekData(gameweek) == [status |-> "no_gameweek_data", gameweek |-> gameweek]

show_player_gameweek_stats(player_id, gameweek, df) ==
    LET gw == get_gameweek_history(player_id)
        row == SelectSeq(gw, LAMBDA e : e.round = gameweek)
    IN IF gw = <<>> THEN NoData
       ELSE IF row = <<>> THEN NoGameweekData(gameweek)
            ELSE [status |-> "stats", name |-> get_player_name(player_id, df),
                  row |-> row[1]]

\* The points chart: one line through the rounds in round order.
plot_player_points(player_id, df) ==
    LET gw == get_gameweek_history(player_id)
    IN IF gw = <<>> THEN NoData
       ELSE [status |-> "plot", title |-> get_player_name(player_id, df),
             lines |-> <<PlotLine(player_id, gw)>>]

\* The price chart: the same rounds; the prices of a round are not part of
\* the series modelled here, so the line is given by its rounds alone.
plot_player_price(player_id, df) ==
    LET gw == get_gameweek_history(player_id)
        sorted == SortByRound(gw)
    IN IF gw = <<>> THEN NoData
       ELSE [status |-> "price_plot", title |-> get_player_name(player_id, df),
             rounds |-> [i \in 1..Len(sorted) |-> sorted[i].round]]

CannotCompare == [status |-> "cannot_compare"]

Abs(n) == IF n < 0 THEN 0 - n ELSE n

compare_players_points(player1_id, player2_id, df) ==
    LET gw1 == get_gameweek_history(player1_id)
        gw2 == get_gameweek_history(player2_id)
    IN IF gw1 = <<>> \/ gw2 = <<>> THEN CannotCompare
       ELSE [status |-> "comparison",
             total1 |-> Points(gw1), total2 |-> Points(gw2),
             difference |-> Abs(Points(gw1) - Points(gw2)),
             lines |-> <<PlotLine(player1_id, gw1), PlotLine(player2_id, gw2)>>]

\* show_players_sorted_alphabetically and show_players_sorted_by_team list
\* every record in the order of its names; names are not part of the records
\* modelled here, so the listing is given by the records it holds.
show_players_sorted(df) ==
    [status |-> "listing", ids |-> {df[i].Player_ID : i \in 1..Len(df)}]

----------------------------------------------------------------------------
(* Reading the user's answers *)

\* A line typed at a prompt, after strip(): nothing, text that int() refuses,
\* or the decimal text of an integer.
EmptyLine == [kind |-> "empty", val |-> 0]
TextLine == [kind |-> "text", val |-> 0]
IntLine(v) == [kind |-> "int", val |-> v]

\* get_valid_integer, given the lines typed at its prompt in order: the first
\* line it accepts, as Some(value); None while every line so far was refused
\* and the prompt is shown again.
RECURSIVE FirstInteger(_, _, _, _)
FirstInteger(lines, min_val, max_val, default) ==
    IF lines = <<>> THEN None
    ELSE LET l == Head(lines)
         IN IF l.kind = "empty"
            THEN IF default /= None THEN default
                 ELSE FirstInteger(Tail(lines), min_val, max_val, default)
            ELSE IF l.kind = "text"
                 THEN FirstInteger(Tail(lines), min_val, max_val, default)
                 ELSE Some(l.val)
RECURSIVE get_valid_integer(_, _, _, _)
get_valid_integer(lines, min_val, max_val, default) ==
    IF lines = <<>> THEN None
    ELSE LET l == Head(lines)
         IN IF l.kind = "empty"
            THEN IF default /= None THEN default
                 ELSE get_valid_integer(Tail(lines), min_val, max_val, default)
            ELSE IF l.kind = "text"
                 THEN get_valid_integer(Tail(lines), min_val, max_val, default)
                 ELSE IF \/ (min_val /= None /\ l.val < Val(min_val))
                         \/ (max_val /= None /\ l.val > Val(max_val))
                      THEN get_valid_integer(Tail(lines), min_val, max_val, default)
                      ELSE Some(l.val)

\* str.strip() for the blank " ".
RECURSIVE LStrip(_)
LStrip(str) == IF str /= <<>> /\ Head(str) = " " THEN LStrip(Tail(str)) ELSE str

Strip(str) == Reverse(LStrip(Reverse(LStrip(str))))

\* get_valid_position, given the lines typed at its prompt: Some(None) for an
\* empty line, Some(name in lower case) for one of the four names in any
\* casing; None while every line so far was refused.
RECURSIVE get_valid_position(_)
get_valid_position(lines) ==
    IF lines = <<>> THEN None
    ELSE LET pos == StrLower(Strip(Head(lines)))
         IN IF pos = <<>> THEN Some(None)
            ELSE IF \E i \in 1..Len(valid_positions) : pos = StrLower(valid_positions[i])
                 THEN Some(pos)
                 ELSE get_valid_position(Tail(lines))

----------------------------------------------------------------------------
(* The session: main() loads the snapshot once, then serves menu calls *)

CallOf(fn) ==
    [fn |-> fn, top_n |-> 0, position |-> <<>>, up_to_gameweek |-> None,
     min_points |-> 0, last_n |-> 0, from_gameweek |-> None, to_gameweek |-> None,
     player_ids |-> <<>>, gameweek |-> 0, choice |-> 0]

NoCall == CallOf("none")

NoOut == [status |-> "none"]

\* main(): players_df, team_map = load_fpl_data()
LoadData ==
    /\ pc = "start"
    /\ bootstrap.ok
    /\ snapshot_fetches' = snapshot_fetches + 1
    /\ players_df' = load_fpl_data(bootstrap)
    /\ pc' = "menu"
    /\ UNCHANGED <<bootstrap, summaries, call, out, series_fetches>>

\* main(): `except Exception` around the load prints the error and returns.
LoadFailsToMenu ==
    /\ pc = "start"
    /\ ~bootstrap.ok
    /\ snapshot_fetches' = snapshot_fetches + 1
    /\ pc' = "menu"
    /\ UNCHANGED <<bootstrap, summaries, players_df, call, out, series_fetches>>
LoadFails ==
    /\ pc = "start"
    /\ ~bootstrap.ok
    /\ snapshot_fetches' = snapshot_fetches + 1
    /\ pc' = "failed"
    /\ UNCHANGED <<bootstrap, summaries, players_df, call, out, series_fetches>>

\* A call made from the menu loop is followed by wait_for_user(), unless it
\* raised: no handler surrounds the calls, so main() ends with the exception.
After(o) == IF o.status = "raised" THEN "raised" ELSE "wait"

\* wait_for_user() returns and the loop clears the screen and shows the menu.
WaitForUser ==
    /\ pc = "wait"
    /\ pc' = "menu"
    /\ call' = NoCall
    /\ out' = NoOut
    /\ series_fetches' = <<>>
    /\ UNCHANGED <<bootstrap, summaries, players_df, snapshot_fetches>>

ShowTopPlayers(TopNs, Positions, UpTos) ==
    /\ pc = "menu"
    /\ \E top_n \in TopNs, position \in Positions, up_to \in UpTos :
         \E o \in show_top_players(players_df, up_to, top_n, position) :
            /\ call' = [CallOf("show_top_players") EXCEPT !.top_n = top_n,
                           !.position = position, !.up_to_gameweek = up_to]
            /\ out' = o
            /\ pc' = After(o)
            /\ series_fetches' = Requests_show_top_players(players_df, up_to, position)
    /\ UNCHANGED <<bootstrap, summaries, players_df, snapshot_fetches>>

ShowTopByPickRate(TopNs, Positions) ==
    /\ pc = "menu"
    /\ \E top_n \in TopNs, position \in Positions :
         \E o \in show_top_by_pick_rate(players_df, top_n, position) :
            /\ call' = [CallOf("show_top_by_pick_rate") EXCEPT !.top_n = top_n,
                           !.position = position]
            /\ out' = o
            /\ pc' = After(o)
            /\ series_fetches' = <<>>
    /\ UNCHANGED <<bootstrap, summaries, players_df, snapshot_fetches>>

ShowTopValueForMoney(TopNs, Positions, MinPts) ==
    /\ pc = "menu"
    /\ \E top_n \in TopNs, position \in Positions, min_points \in MinPts :
         \E o \in show_top_value_for_money(players_df, top_n, position, min_points) :
            /\ call' = [CallOf("show_top_value_for_money") EXCEPT !.top_n = top_n,
                           !.position = position, !.min_points = min_points]
            /\ out' = o
            /\ pc' = After(o)
            /\ series_fetches' = <<>>
            /\ players_df' = FrameAfterQuery(players_df,
                                 ValueFrame(players_df, position, min_points))
    /\ UNCHANGED <<bootstrap, summaries, snapshot_fetches>>

ShowPlayersByPosition(Positions) ==
    /\ pc = "menu"
    /\ \E position \in Positions :
         \E o \in show_players_by_position(players_df, position) :
            /\ call' = [CallOf("show_players_by_position") EXCEPT !.position = position]
            /\ out' = o
            /\ pc' = After(o)
            /\ series_fetches' = <<>>
    /\ UNCHANGED <<bootstrap, summaries, players_df, snapshot_fetches>>

\* Windows is a set of [last_n, from_gameweek, to_gameweek] records.
ShowTopFormPlayers(TopNs, Positions, Windows) ==
    /\ pc = "menu"
    /\ \E top_n \in TopNs, position \in Positions, w \in Windows :
         \E o \in show_top_form_players(players_df, top_n, position, w.last_n,
                                        w.from_gameweek, w.to_gameweek) :
            /\ call' = [CallOf("show_top_form_players") EXCEPT !.top_n = top_n,
                           !.position = position, !.last_n = w.last_n,
                           !.from_gameweek = w.from_gameweek,
                           !.to_gameweek = w.to_gameweek]
            /\ out' = o
            /\ pc' = After(o)
            /\ series_fetches' = Requests_show_top_form_players(players_df, position)
    /\ UNCHANGED <<bootstrap, summaries, players_df, snapshot_fetches>>

ShowPlayerFormAnalysis(Ids, Windows) ==
    /\ pc = "menu"
    /\ \E player_id \in Ids, w \in Windows :
         LET o == show_player_form_analysis(player_id, w.last_n, w.from_gameweek,
                                            w.to_gameweek)
         IN /\ call' = [CallOf("show_player_form_analysis") EXCEPT
                           !.player_ids = <<player_id>>, !.last_n = w.last_n,
                           !.from_gameweek = w.from_gameweek,
                           !.to_gameweek = w.to_gameweek]
            /\ out' = o
            /\ pc' = After(o)
            /\ series_fetches' = <<player_id>>
    /\ UNCHANGED <<bootstrap, summaries, players_df, snapshot_fetches>>

PlotFormComparison(IdLists, Windows) ==
    /\ pc = "menu"
    /\ \E player_ids \in IdLists, w \in Windows :
         LET o == plot_form_comparison(player_ids, w.last_n, w.from_gameweek,
                                       w.to_gameweek)
         IN /\ call' = [CallOf("plot_form_comparison") EXCEPT
                           !.player_ids = player_ids, !.last_n = w.last_n,
                           !.from_gameweek = w.from_gameweek,
                           !.to_gameweek = w.to_gameweek]
            /\ out' = o
            /\ pc' = After(o)
            /\ series_fetches' = player_ids
    /\ UNCHANGED <<bootstrap, summaries, players_df, snapshot_fetches>>

----------------------------------------------------------------------------
(* The menu loop of main(): one action per selection.  The parameters of an *)
(* action are the sets of answers the user may type at its prompts; an      *)
(* action is taken once every prompt has got an answer it accepts.          *)

\* What the selection leaves behind, and where main() goes on.
Serve(choice, c, o, fetches) ==
    /\ call' = [c EXCEPT !.choice = choice]
    /\ out' = o
    /\ pc' = After(o)
    /\ series_fetches' = fetches
    /\ UNCHANGED <<bootstrap, summaries, snapshot_fetches>>

\* choice == '0'
Option0 ==
    /\ pc = "menu"
    /\ pc' = "exited"
    /\ UNCHANGED <<bootstrap, summaries, players_df, call, out, snapshot_fetches,
                   series_fetches>>

\* The else branch: a selection that is none of '0'..'18'.
InvalidOption ==
    /\ pc = "menu"
    /\ Serve(19, CallOf("none"), [status |-> "invalid_option"], <<>>)
    /\ UNCHANGED players_df

Option1(TopNLines) ==
    /\ pc = "menu"
    /\ \E tl \in TopNLines :
         LET top_n == get_valid_integer(tl, Some(1), None, None)
         IN /\ top_n /= None
            /\ \E o \in show_top_players(players_df, None, Val(top_n), None) :
                  Serve(1, [CallOf("show_top_players") EXCEPT !.top_n = Val(top_n)],
                        o, Requests_show_top_players(players_df, None, None))
    /\ UNCHANGED players_df

Option2(TopNLines, PosLines) ==
    /\ pc = "menu"
    /\ \E tl \in TopNLines, pl \in PosLines :
         LET top_n == get_valid_integer(tl, Some(1), None, None)
             pos == get_valid_position(pl)
         IN /\ top_n /= None /\ pos /= None
            /\ \E o \in show_top_by_pick_rate(players_df, Val(top_n), Val(pos)) :
                  Serve(2, [CallOf("show_top_by_pick_rate") EXCEPT
                               !.top_n = Val(top_n), !.position = Val(pos)],
                        o, <<>>)
    /\ UNCHANGED players_df

\* x or 50
OrKept(x, default) == x
OrDefault(x, default) == IF x = 0 THEN default ELSE x

Option3(TopNLines, PosLines, MinPtsLines) ==
    /\ pc = "menu"
    /\ \E tl \in TopNLines, pl \in PosLines, ml \in MinPtsLines :
         LET top_n == get_valid_integer(tl, Some(1), None, None)
             pos == get_valid_position(pl)
             typed == get_valid_integer(ml, Some(0), None, None)
         IN /\ top_n /= None /\ pos /= None /\ typed /= None
            /\ LET min_pts == OrDefault(Val(typed), 50)
               IN /\ \E o \in show_top_value_for_money(players_df, Val(top_n),
                                                       Val(pos), min_pts) :
                        Serve(3, [CallOf("show_top_value_for_money") EXCEPT
                                     !.top_n = Val(top_n), !.position = Val(pos),
                                     !.min_points = min_pts],
                              o, <<>>)
                  /\ players_df' = FrameAfterQuery(players_df,
                                       ValueFrame(players_df, Val(pos), min_pts))

\* pos = input(...).strip().lower()
Option4(PosLines) ==
    /\ pc = "menu"
    /\ \E line \in PosLines :
         LET pos == StrLower(Strip(line))
         IN \E o \in show_players_by_position(players_df, pos) :
               Serve(4, [CallOf("show_players_by_position") EXCEPT !.position = pos],
                     o, <<>>)
    /\ UNCHANGED players_df

Option5 ==
    /\ pc = "menu"
    /\ Serve(5, CallOf("show_players_sorted_alphabetically"),
             show_players_sorted(players_df), <<>>)
    /\ UNCHANGED players_df

Option6 ==
    /\ pc = "menu"
    /\ Serve(6, CallOf("show_players_sorted_by_team"),
             show_players_sorted(players_df), <<>>)
    /\ UNCHANGED players_df

Option7(TopNLines, PosLines, NLines) ==
    /\ pc = "menu"
    /\ \E tl \in TopNLines, pl \in PosLines, nl \in NLines :
         LET top_n == get_valid_integer(tl, Some(1), None, None)
             pos == get_valid_position(pl)
             n_gws == get_valid_integer(nl, Some(1), None, Some(5))
         IN /\ top_n /= None /\ pos /= None /\ n_gws /= None
            /\ \E o \in show_top_form_players(players_df, Val(top_n), Val(pos),
                                              Val(n_gws), None, None) :
                  Serve(7, [CallOf("show_top_form_players") EXCEPT
                               !.top_n = Val(top_n), !.position = Val(pos),
                               !.last_n = Val(n_gws)],
                        o, Requests_show_top_form_players(players_df, Val(pos)))
    /\ UNCHANGED players_df

Option8(TopNLines, GwLines, PosLines) ==
    /\ pc = "menu"
    /\ \E tl \in TopNLines, gl \in GwLines, pl \in PosLines :
         LET top_n == get_valid_integer(tl, Some(1), None, None)
             gw == get_valid_integer(gl, Some(1), None, None)
             pos == get_valid_position(pl)
         IN /\ top_n /= None /\ gw /= None /\ pos /= None
            /\ \E o \in show_top_players(players_df, gw, Val(top_n), Val(pos)) :
                  Serve(8, [CallOf("show_top_players") EXCEPT
                               !.top_n = Val(top_n), !.position = Val(pos),
                               !.up_to_gameweek = gw],
                        o, Requests_show_top_players(players_df, gw, Val(pos)))
    /\ UNCHANGED players_df

Option9(IdLines, NLines) ==
    /\ pc = "menu"
    /\ \E il \in IdLines, nl \in NLines :
         LET pid == get_valid_integer(il, Some(1), None, None)
             n_gws == get_valid_integer(nl, Some(1), None, Some(5))
         IN /\ pid /= None /\ n_gws /= None
            /\ Serve(9, [CallOf("show_player_form_analysis") EXCEPT
                            !.player_ids = <<Val(pid)>>, !.last_n = Val(n_gws)],
                     show_player_form_analysis(Val(pid), Val(n_gws), None, None),
                     <<Val(pid)>>)
    /\ UNCHANGED players_df

\* A comma-separated answer is the sequence of its parts, each a line as
\* above (split(',') gives one part at least).  int() refuses an empty part
\* and text; isdigit() holds for the integers typed without a sign.
AllInts(parts) == \A i \in 1..Len(parts) : parts[i].kind = "int"

IsDigit(part) == part.kind = "int" /\ part.val >= 0

Ints(parts) == [i \in 1..Len(parts) |-> parts[i].val]

AllEntered(player_ids) == player_ids
\* player_ids[:6] when len(player_ids) > 6
FirstSix(player_ids) == SubSeq(player_ids, 1, Min2(Len(player_ids), 6))

InvalidIds == [status |-> "invalid_ids"]

\* Selection 10: a part that int() refuses raises ValueError, which the
\* handler around the selection catches before any other prompt.
Option10(IdParts, NLines) ==
    /\ pc = "menu"
    /\ \E parts \in IdParts, nl \in NLines :
         IF ~AllInts(parts)
         THEN Serve(10, CallOf("none"), InvalidIds, <<>>)
         ELSE LET player_ids == FirstSix(Ints(parts))
                  n_gws == get_valid_integer(nl, Some(1), None, Some(8))
              IN /\ n_gws /= None
                 /\ Serve(10, [CallOf("plot_form_comparison") EXCEPT
                                  !.player_ids = player_ids, !.last_n = Val(n_gws)],
                          plot_form_comparison(player_ids, Val(n_gws), None, None),
                          player_ids)
    /\ UNCHANGED players_df

\* Selection 11: show_player_history(pid, team_map) gives two arguments to a
\* function of three required parameters, so the call raises TypeError
\* before the function's body runs.
Option11(IdLines) ==
    /\ pc = "menu"
    /\ \E il \in IdLines :
         LET pid == get_valid_integer(il, Some(1), None, None)
         IN /\ pid /= None
            /\ Serve(11, [CallOf("show_player_history") EXCEPT
                             !.player_ids = <<Val(pid)>>],
                     [status |-> "raised"], <<>>)
    /\ UNCHANGED players_df

Option12(IdLines, GwLines) ==
    /\ pc = "menu"
    /\ \E il \in IdLines, gl \in GwLines :
         LET pid == get_valid_integer(il, Some(1), None, None)
             gw == get_valid_integer(gl, Some(1), None, None)
         IN /\ pid /= None /\ gw /= None
            /\ Serve(12, [CallOf("show_player_gameweek_stats") EXCEPT
                             !.player_ids = <<Val(pid)>>, !.gameweek = Val(gw)],
                     show_player_gameweek_stats(Val(pid), Val(gw), players_df),
                     <<Val(pid)>>)
    /\ UNCHANGED players_df

NotFound == [status |-> "not_found"]

\* Selections 13 and 14 look the player up before they plot.
Option13(IdLines) ==
    /\ pc = "menu"
    /\ \E il \in IdLines :
         LET pid == get_valid_integer(il, Some(1), None, None)
         IN /\ pid /= None
            /\ IF ~KnownPlayer(players_df, Val(pid))
               THEN Serve(13, [CallOf("none") EXCEPT !.player_ids = <<Val(pid)>>],
                          NotFound, <<>>)
               ELSE Serve(13, [CallOf("plot_player_points") EXCEPT
                                  !.player_ids = <<Val(pid)>>],
                          plot_player_points(Val(pid), players_df), <<Val(pid)>>)
    /\ UNCHANGED players_df

Option14(IdLines) ==
    /\ pc = "menu"
    /\ \E il \in IdLines :
         LET pid == get_valid_integer(il, Some(1), None, None)
         IN /\ pid /= None
            /\ IF ~KnownPlayer(players_df, Val(pid))
               THEN Serve(14, [CallOf("none") EXCEPT !.player_ids = <<Val(pid)>>],
                          NotFound, <<>>)
               ELSE Serve(14, [CallOf("plot_player_price") EXCEPT
                                  !.player_ids = <<Val(pid)>>],
                          plot_player_price(Val(pid), players_df), <<Val(pid)>>)
    /\ UNCHANGED players_df

Option15(IdLines) ==
    /\ pc = "menu"
    /\ \E l1 \in IdLines, l2 \in IdLines :
         LET pid1 == get_valid_integer(l1, Some(1), None, None)
             pid2 == get_valid_integer(l2, Some(1), None, None)
         IN /\ pid1 /= None /\ pid2 /= None
            /\ Serve(15, [CallOf("compare_players_points") EXCEPT
                             !.player_ids = <<Val(pid1), Val(pid2)>>],
                     compare_players_points(Val(pid1), Val(pid2), players_df),
                     <<Val(pid1), Val(pid2)>>)
    /\ UNCHANGED players_df

Option16(IdLines, FromLines, ToLines) ==
    /\ pc = "menu"
    /\ \E il \in IdLines, fl \in FromLines, tl \in ToLines :
         LET pid == get_valid_integer(il, Some(1), None, None)
             from_gw == get_valid_integer(fl, Some(1), None, None)
             to_gw == get_valid_integer(tl, from_gw, None, None)
         IN /\ pid /= None /\ from_gw /= None /\ to_gw /= None
            /\ Serve(16, [CallOf("show_player_form_analysis") EXCEPT
                             !.player_ids = <<Val(pid)>>, !.last_n = 5,
                             !.from_gameweek = from_gw, !.to_gameweek = to_gw],
                     show_player_form_analysis(Val(pid), 5, from_gw, to_gw),
                     <<Val(pid)>>)
    /\ UNCHANGED players_df

Option17(TopNLines, PosLines, FromLines, ToLines) ==
    /\ pc = "menu"
    /\ \E nl \in TopNLines, pl \in PosLines, fl \in FromLines, tl \in ToLines :
         LET top_n == get_valid_integer(nl, Some(1), None, None)
             pos == get_valid_position(pl)
             from_gw == get_valid_integer(fl, Some(1), None, None)
             to_gw == get_valid_integer(tl, from_gw, None, None)
         IN /\ top_n /= None /\ pos /= None /\ from_gw /= None /\ to_gw /= None
            /\ \E o \in show_top_form_players(players_df, Val(top_n), Val(pos), 5,
                                              from_gw, to_gw) :
                  Serve(17, [CallOf("show_top_form_players") EXCEPT
                                !.top_n = Val(top_n), !.position = Val(pos),
                                !.last_n = 5, !.from_gameweek = from_gw,
                                !.to_gameweek = to_gw],
                        o, Requests_show_top_form_players(players_df, Val(pos)))
    /\ UNCHANGED players_df

\* Selection 18 keeps the parts for which isdigit() holds.
Option18(IdParts, FromLines, ToLines) ==
    /\ pc = "menu"
    /\ \E parts \in IdParts, fl \in FromLines, tl \in ToLines :
         LET player_ids == FirstSix(Ints(SelectSeq(parts, IsDigit)))
             from_gw == get_valid_integer(fl, Some(1), None, None)
             to_gw == get_valid_integer(tl, from_gw, None, None)
         IN /\ from_gw /= None /\ to_gw /= None
            /\ Serve(18, [CallOf("plot_form_comparison") EXCEPT
                             !.player_ids = player_ids, !.last_n = 8,
                             !.from_gameweek = from_gw, !.to_gameweek = to_gw],
                     plot_form_comparison(player_ids, 8, from_gw, to_gw),
                     player_ids)
    /\ UNCHANGED players_df

----------------------------------------------------------------------------
(* Inputs: snapshots and gameweek series *)

\* element_types of the API: 1..4 the playing positions, 5 the manager.
ElementTypes ==
    <<[id |-> 1, singular_name |-> Goalkeeper], [id |-> 2, singular_name |-> Defender],
      [id |-> 3, singular_name |-> Midfielder], [id |-> 4, singular_name |-> Forward],
      [id |-> 5, singular_name |-> Manager]>>

\* The snapshots of k players numbered 1..k whose other fields are in Fields.
Snapshots(k, Fields) ==
    {[ok |-> TRUE, element_types |-> ElementTypes,
      elements |-> [i \in 1..k |-> [id |-> i] @@ f[i]]] : f \in [1..k -> Fields]}

FailedSnapshot == [ok |-> FALSE, element_types |-> <<>>, elements |-> <<>>]

SnapshotsUpTo(n, Fields) == {FailedSnapshot} \cup UNION {Snapshots(k, Fields) : k \in 0..n}

NoSummaries == [id \in {} |-> [ok |-> FALSE, history |-> <<>>]]

StartWith(b, sm) ==
    /\ pc = "start"
    /\ bootstrap = b
    /\ summaries = sm
    /\ players_df = <<>>
    /\ call = NoCall
    /\ out = NoOut
    /\ snapshot_fetches = 0
    /\ series_fetches = <<>>

----------------------------------------------------------------------------
(* Specification of the loader alone *)

LoadFields ==
    [element_type : 1..6, now_cost : {45}, selected_by_percent : {15},
     total_points : {0, 40}]

InitLoad == \E b \in SnapshotsUpTo(MaxPlayers, LoadFields) : StartWith(b, NoSummaries)

NextLoad == LoadData \/ LoadFails

SpecLoad == InitLoad /\ [][NextLoad]_vars

----------------------------------------------------------------------------
(* Specification of the series aggregators: one player, whose gameweek     *)
(* series varies, and every window                                         *)

\* What a round can hold: a played round with a deduction, a played round
\* with points, and a round not played that still carries a point.
EntryKinds ==
    {[total_points |-> -1, minutes |-> 90], [total_points |-> 2, minutes |-> 90],
     [total_points |-> 1, minutes |-> 0]}

RECURSIVE Ascending(_)
Ascending(S) ==
    IF S = {} THEN <<>>
    ELSE LET m == CHOOSE x \in S : \A y \in S : x <= y
         IN <<m>> \o Ascending(S \ {m})

\* The series with one entry per round of a subset of 1..maxRound, in round
\* order as the API lists them; a series may miss rounds.
SeriesOn(S, f) ==
    [i \in 1..Cardinality(S) |-> [round |-> Ascending(S)[i]] @@ f[Ascending(S)[i]]]

SeriesUpTo(maxRound, Kinds) ==
    UNION {{SeriesOn(S, f) : f \in [S -> Kinds]} : S \in SUBSET (1..maxRound)}

\* Rounds 1..5 with points 2, 0, 6, 10, 8, all played.
ScenarioSeries ==
    <<[round |-> 1, total_points |-> 2, minutes |-> 90],
      [round |-> 2, total_points |-> 0, minutes |-> 90],
      [round |-> 3, total_points |-> 6, minutes |-> 90],
      [round |-> 4, total_points |-> 10, minutes |-> 90],
      [round |-> 5, total_points |-> 8, minutes |-> 90]>>

Fetched(series) == [ok |-> TRUE, history |-> series]

FetchFails == [ok |-> FALSE, history |-> <<>>]

OnePlayer ==
    [ok |-> TRUE, element_types |-> ElementTypes,
     elements |-> <<[id |-> 1, element_type |-> 1, now_cost |-> 45,
                     selected_by_percent |-> 15, total_points |-> 40]>>]

OptionalBounds(maxRound) == {None} \cup {Some(v) : v \in 0..maxRound}

\* Every window: the last n rounds when no starting round is given (None, or
\* 0, which `if from_gameweek` takes for None too), else from a starting round.
Windows(maxRound) ==
    {[last_n |-> n, from_gameweek |-> f, to_gameweek |-> t] :
        n \in 1..maxRound, f \in {None, Some(0)}, t \in OptionalBounds(maxRound)}
    \cup
    {[last_n |-> 5, from_gameweek |-> Some(f), to_gameweek |-> t] :
        f \in 1..maxRound, t \in OptionalBounds(maxRound)}

InitSeries ==
    \/ StartWith(FailedSnapshot, NoSummaries)
    \/ \E sm \in {FetchFails, Fetched(ScenarioSeries)}
                 \cup {Fetched(x) : x \in SeriesUpTo(MaxRound, EntryKinds)} :
          StartWith(OnePlayer, [id \in {1} |-> sm])

NextSeries ==
    \/ LoadData
    \/ LoadFails
    \/ WaitForUser
    \/ ShowPlayerFormAnalysis({1}, Windows(MaxRound))
    \/ ShowTopFormPlayers({20}, {<<>>}, Windows(MaxRound))
    \/ PlotFormComparison({<<1>>}, Windows(MaxRound))

SpecSeries == InitSeries /\ [][NextSeries]_vars

----------------------------------------------------------------------------
(* Specification of the ranking functions: snapshots whose season fields   *)
(* vary, and snapshots whose players' gameweek series vary                 *)

\* Position, cost and points vary; and the pick rate varies.
RankFields ==
    [element_type : {1, 2}, now_cost : {40, 80}, selected_by_percent : {15},
     total_points : {40, 80}]
    \cup
    [element_type : {1}, now_cost : {40}, selected_by_percent : {150, 250},
     total_points : {40}]

\* Players A (cost 8.0, 80 points), B (cost 4.0, 80 points) and
\* C (cost 10.0, 40 points).
ScenarioSnapshot ==
    [ok |-> TRUE, element_types |-> ElementTypes,
     elements |-> <<[id |-> 1, element_type |-> 3, now_cost |-> 80,
                     selected_by_percent |-> 15, total_points |-> 80],
                    [id |-> 2, element_type |-> 3, now_cost |-> 40,
                     selected_by_percent |-> 15, total_points |-> 80],
                    [id |-> 3, element_type |-> 3, now_cost |-> 100,
                     selected_by_percent |-> 15, total_points |-> 40]>>]

\* k players, goalkeepers and defenders in turn, alike in their season fields.
FormSnapshot(k) ==
    [ok |-> TRUE, element_types |-> ElementTypes,
     elements |-> [i \in 1..k |-> [id |-> i, element_type |-> 1 + ((i + 1) % 2),
                                   now_cost |-> 45, selected_by_percent |-> 15,
                                   total_points |-> 40]]]

FormKinds == {[total_points |-> 2, minutes |-> 90]}

\* For each of k players a fetch that fails or a series over 1..MaxFormRound.
FormSummaries(k) ==
    [1..k -> {FetchFails} \cup {Fetched(x) : x \in SeriesUpTo(MaxFormRound, FormKinds)}]

lower_goalkeeper == StrLower(Goalkeeper)

RankTopNs == (0 - 1)..MaxTopN

RankPositions == {<<>>, lower_goalkeeper}

\* Last-N, From-only and From-to windows with bounds among the rounds.
RankWindows ==
    {[last_n |-> n, from_gameweek |-> None, to_gameweek |-> None] : n \in 1..MaxFormRound}
    \cup
    {[last_n |-> 5, from_gameweek |-> Some(f), to_gameweek |-> t] :
        f \in 1..MaxFormRound, t \in {None} \cup {Some(v) : v \in 1..MaxFormRound}}

InitRank ==
    \/ \E b \in SnapshotsUpTo(MaxPlayers, RankFields) \cup {ScenarioSnapshot} :
          StartWith(b, NoSummaries)
    \/ \E k \in 1..MaxFormPlayers : \E sm \in FormSummaries(k) :
          StartWith(FormSnapshot(k), sm)

NextRank ==
    \/ LoadData
    \/ LoadFails
    \/ WaitForUser
    \/ ShowTopPlayers(RankTopNs, RankPositions,
                      {None} \cup {Some(g) : g \in 1..MaxFormRound})
    \/ ShowTopByPickRate(RankTopNs, RankPositions)
    \/ ShowTopValueForMoney(RankTopNs, RankPositions, {0, 50})
    \/ ShowTopFormPlayers(RankTopNs, {<<>>}, RankWindows)

SpecRank == InitRank /\ [][NextRank]_vars

----------------------------------------------------------------------------
(* Specification of the position filter: players of the four positions and *)
(* position strings in many casings                                        *)

PosFields ==
    [element_type : 1..4, now_cost : {45}, selected_by_percent : {15},
     total_points : {40}]

\* s with its first k characters in upper case and the rest in lower case,
\* and the other way round.
UpperThenLower(s, k) == [i \in 1..Len(s) |-> IF i <= k THEN ToUpper(s[i]) ELSE ToLower(s[i])]

LowerThenUpper(s, k) == [i \in 1..Len(s) |-> IF i <= k THEN ToLower(s[i]) ELSE ToUpper(s[i])]

Casings(s) ==
    {UpperThenLower(s, k) : k \in 0..Len(s)} \cup {LowerThenUpper(s, k) : k \in 0..Len(s)}

\* The four names, and strings that are no position name: "keeper",
\* "manager", "goalkeepers", " forward".
Words ==
    {Goalkeeper, Defender, Midfielder, Forward, Manager,
     <<"k", "e", "e", "p", "e", "r">>, Goalkeeper \o <<"s">>, <<" ">> \o Forward}

PositionInputs == {<<>>} \cup UNION {Casings(w) : w \in Words}

OneRound == <<[round |-> 1, total_points |-> 2, minutes |-> 90]>>

InitPos ==
    \E b \in SnapshotsUpTo(MaxPlayers, PosFields) :
        StartWith(b, [i \in 1..Len(b.elements) |-> Fetched(OneRound)])

DefaultWindow == [last_n |-> 5, from_gameweek |-> None, to_gameweek |-> None]

NextPos ==
    \/ LoadData
    \/ LoadFails
    \/ WaitForUser
    \/ ShowPlayersByPosition(PositionInputs)
    \/ ShowTopPlayers({0}, PositionInputs, {None, Some(1)})
    \/ ShowTopByPickRate({0}, PositionInputs)
    \/ ShowTopValueForMoney({0}, PositionInputs, {0})
    \/ ShowTopFormPlayers({0}, PositionInputs, {DefaultWindow})

SpecPos == InitPos /\ [][NextPos]_vars

----------------------------------------------------------------------------
(* Specification of the menu loop: squads of players and a manager, whose   *)
(* gameweek series may fail to load, and the answers typed at the prompts   *)

MaxMenuPlayers == 2  \* players of a squad, besides its manager
MaxTyped == 3        \* greatest number typed at a prompt

\* k players as in FormSnapshot and a manager, who has the id k + 1.
SquadSnapshot(k) ==
    [ok |-> TRUE, element_types |-> ElementTypes,
     elements |-> FormSnapshot(k).elements \o
                  <<[id |-> k + 1, element_type |-> 5, now_cost |-> 10,
                     selected_by_percent |-> 5, total_points |-> 0]>>]

TwoRounds ==
    <<[round |-> 1, total_points |-> 2, minutes |-> 90],
      [round |-> 2, total_points |-> 6, minutes |-> 90]>>

\* The API has a summary for every element, the manager too; each may fail,
\* have an empty history, or have two rounds.
SquadSummaries(k) ==
    {sm \in [1..(k + 1) -> {FetchFails, Fetched(<<>>), Fetched(TwoRounds)}] :
        sm[k + 1] /= Fetched(<<>>)}

\* One number; or an answer that is refused and the number typed after it;
\* or an empty line alone.
NumberAnswers ==
    {<<IntLine(v)>> : v \in 0..MaxTyped}
    \cup {<<EmptyLine, IntLine(1)>>, <<TextLine, IntLine(2)>>,
          <<IntLine(0 - 1), IntLine(1)>>, <<IntLine(1), IntLine(2)>>, <<EmptyLine>>}

TopNAnswers == {<<IntLine(1)>>, <<IntLine(0), IntLine(2)>>}

CountAnswers == {<<EmptyLine>>, <<IntLine(1)>>, <<IntLine(0), IntLine(2)>>}

MinPointsAnswers ==
    {<<IntLine(0)>>, <<IntLine(40)>>, <<EmptyLine, IntLine(30)>>,
     <<IntLine(0 - 1), IntLine(0)>>}

keeper == <<"k", "e", "e", "p", "e", "r">>

\* Answers to get_valid_position: an empty line, "GOALKEEPER", and "keeper"
\* followed by "Defender".
PositionAnswers ==
    {<<None>>, <<UpperThenLower(Goalkeeper, Len(Goalkeeper))>>, <<keeper, Defender>>}

\* Lines typed at selection 4: nothing, "GOALKEEPER", " forward", "keeper".
PositionLines ==
    {<<>>, UpperThenLower(Goalkeeper, Len(Goalkeeper)), <<" ">> \o StrLower(Forward),
     keeper}

\* Comma-separated ids: "1", "1,2", "x", "", "1,x", "-1", the manager's id,
\* "0" and seven ids.
IdAnswers ==
    {<<IntLine(1)>>, <<IntLine(1), IntLine(2)>>, <<TextLine>>, <<EmptyLine>>,
     <<IntLine(1), TextLine>>, <<IntLine(0 - 1)>>, <<IntLine(MaxTyped)>>,
     <<IntLine(0)>>,
     <<IntLine(2), IntLine(1), IntLine(2), IntLine(1), IntLine(2), IntLine(1),
       IntLine(MaxTyped)>>}

InitMenu ==
    \/ StartWith(FailedSnapshot, NoSummaries)
    \/ \E k \in 0..MaxMenuPlayers : \E sm \in SquadSummaries(k) :
          StartWith(SquadSnapshot(k), sm)

NextMenu ==
    \/ LoadData
    \/ LoadFails
    \/ WaitForUser
    \/ Option0
    \/ InvalidOption
    \/ Option1(TopNAnswers)
    \/ Option2(TopNAnswers, PositionAnswers)
    \/ Option3(TopNAnswers, PositionAnswers, MinPointsAnswers)
    \/ Option4(PositionLines)
    \/ Option5
    \/ Option6
    \/ Option7(TopNAnswers, PositionAnswers, CountAnswers)
    \/ Option8(TopNAnswers, NumberAnswers, PositionAnswers)
    \/ Option9(NumberAnswers, CountAnswers)
    \/ Option10(IdAnswers, CountAnswers)
    \/ Option11(NumberAnswers)
    \/ Option12(NumberAnswers, NumberAnswers)
    \/ Option13(NumberAnswers)
    \/ Option14(NumberAnswers)
    \/ Option15(NumberAnswers)
    \/ Option16(NumberAnswers, NumberAnswers, NumberAnswers)
    \/ Option17(TopNAnswers, PositionAnswers, NumberAnswers, NumberAnswers)
    \/ Option18(IdAnswers, NumberAnswers, NumberAnswers)

SpecMenu == InitMenu /\ [][NextMenu]_vars

----------------------------------------------------------------------------
(* Specification of value for money on costs that may be 0 *)

\* A cost of 0 or 4.0; points that are negative, 0 or positive.
ValueFields ==
    [element_type : {1}, now_cost : {0, 40}, selected_by_percent : {15},
     total_points : {0 - 2, 0, 40}]

ValueThresholds == {0 - 5, 0, 30}

InitValue ==
    \E b \in SnapshotsUpTo(MaxPlayers, ValueFields) : StartWith(b, NoSummaries)

NextValue ==
    \/ LoadData
    \/ LoadFails
    \/ WaitForUser
    \/ ShowTopValueForMoney(RankTopNs, {<<>>}, ValueThresholds)

SpecValue == InitValue /\ [][NextValue]_vars

----------------------------------------------------------------------------
(* Specification of the whole session: every call of the menu, on the      *)
(* snapshots and series of the ranking specification                       *)

Init == InitRank

Next ==
    \/ LoadData
    \/ LoadFails
    \/ WaitForUser
    \/ ShowTopPlayers(RankTopNs, RankPositions,
                      {None} \cup {Some(g) : g \in 1..MaxFormRound})
    \/ ShowTopByPickRate(RankTopNs, RankPositions)
    \/ ShowTopValueForMoney(RankTopNs, RankPositions, {0, 50})
    \/ ShowPlayersByPosition(RankPositions)
    \/ ShowTopFormPlayers(RankTopNs, {<<>>}, RankWindows)
    \/ ShowPlayerFormAnalysis(1..MaxFormPlayers, RankWindows)
    \/ PlotFormComparison(SeqsUpTo(1..MaxFormPlayers, MaxFormPlayers), RankWindows)

Spec == Init /\ [][Next]_vars

----------------------------------------------------------------------------
(* Specification of the integer prompt alone: get_valid_integer with each   *)
(* combination of bounds and default, answered line by line                *)

MaxPromptLines == 3  \* lines typed at one prompt

PromptMins == {None, Some(0), Some(1)}
PromptMaxs == {None, Some(MaxTyped - 1)}
PromptDefaults == {None, Some(0), Some(5)}

PromptLines == {EmptyLine, TextLine} \cup {IntLine(v) : v \in (0 - 1)..MaxTyped}

\* The message printed for a line that is not accepted.
Reported(l) ==
    IF l.kind = "empty" THEN "enter_a_number"
    ELSE IF l.kind = "text" THEN "invalid_input" ELSE "out_of_range"

InitPrompt ==
    \E mn \in PromptMins, mx \in PromptMaxs, d \in PromptDefaults :
        /\ pc = "prompt"
        /\ bootstrap = FailedSnapshot
        /\ summaries = NoSummaries
        /\ players_df = <<>>
        /\ call = [fn |-> "get_valid_integer", min_val |-> mn, max_val |-> mx,
                   default |-> d]
        /\ out = [status |-> "asking", lines |-> <<>>, value |-> None]
        /\ snapshot_fetches = 0
        /\ series_fetches = <<>>

\* One pass of the while loop: a line is read; the function returns on it or
\* prints a message and asks again.
AnswerPrompt(Lines) ==
    /\ pc = "prompt"
    /\ Len(out.lines) < MaxPromptLines
    /\ \E l \in Lines :
          LET typed == Append(out.lines, l)
              got == get_valid_integer(typed, call.min_val, call.max_val, call.default)
          IN /\ out' = [status |-> IF got /= None THEN "returned" ELSE Reported(l),
                        lines |-> typed, value |-> got]
             /\ pc' = IF got /= None THEN "returned" ELSE "prompt"
    /\ UNCHANGED <<bootstrap, summaries, players_df, call, snapshot_fetches,
                   series_fetches>>

NextPrompt == AnswerPrompt(PromptLines)

SpecPrompt == InitPrompt /\ [][NextPrompt]_vars

----------------------------------------------------------------------------
(* Claims about the loader (SpecLoad) *)

\* C1: whatever the bulk fetch returns, the player collection that
\* load_fpl_data produces holds no record whose position is "Manager".
C1_NoManagerLoaded ==
    \A i \in 1..Len(players_df) : players_df[i].Position /= Manager

\* A loaded snapshot that had a manager among its elements and kept a player.
C1_Witness ==
    /\ pc = "menu"
    /\ \E i \in 1..Len(bootstrap.elements) : bootstrap.elements[i].element_type = 5
    /\ players_df /= <<>>

----------------------------------------------------------------------------
(* Claims about the series aggregators (SpecSeries) *)

Analysed == call.fn = "show_player_form_analysis" /\ out.status = "analysis"

FormRanked == call.fn = "show_top_form_players" /\ out.status = "table"

\* The points of the analysed window in round order, read off the detail
\* table that the analysis prints (greatest round first).
WindowPoints ==
    [i \in 1..Len(out.display_gws) |->
        out.display_gws[Len(out.display_gws) + 1 - i].total_points]

\* C2: in show_player_form_analysis a window of fewer than 4 rounds is
\* labelled "Insufficient data"; a window of n >= 4 rounds is labelled
\* "Improving", "Declining" or "Stable" as the mean points of the rounds after
\* the first floor(n/2) is greater than, less than or equal to the mean points
\* of the first floor(n/2) rounds (means compared by cross multiplication).
C2_TrendLabel ==
    Analysed =>
        LET n == Len(WindowPoints)
            k == n \div 2
            early == SumSeq(SubSeq(WindowPoints, 1, k))
            late == SumSeq(SubSeq(WindowPoints, k + 1, n))
        IN IF n < 4 THEN out.trend = "Insufficient data"
           ELSE /\ out.trend = "Improving" <=> late * k > early * (n - k)
                /\ out.trend = "Declining" <=> late * k < early * (n - k)
                /\ out.trend = "Stable" <=> late * k = early * (n - k)

\* A window of four or more rounds whose halves differ was analysed.
C2_Witness ==
    /\ Analysed
    /\ Len(out.display_gws) >= 4
    /\ out.trend = "Declining"

\* C3, as claimed: every average points per game is >= 0, is 0 exactly when
\* games played is 0, and its divisor is never 0.
C3_AverageAsClaimed ==
    /\ Analysed =>
         /\ out.avg_points.den > 0 /\ out.avg_points.num >= 0
         /\ out.avg_points.num = 0 <=> out.games_played = 0
         /\ out.period_avg.den > 0 /\ out.period_avg.num >= 0
         /\ out.period_avg.num = 0 <=> out.period_games = 0
    /\ FormRanked =>
         \A i \in 1..Len(out.rows) :
            /\ out.rows[i].Avg_Points.den > 0 /\ out.rows[i].Avg_Points.num >= 0
            /\ out.rows[i].Avg_Points.num = 0 <=> out.rows[i].Games_Played = 0

\* C3, amended: the divisor of every average is max(games played, 1), never
\* 0; the average is total points / max(games played, 1), so it is >= 0
\* whenever the total is >= 0 and is 0 exactly when the total is 0, except
\* that show_top_form_players gives 0 whenever games played is 0.
C3_Average ==
    /\ Analysed =>
         /\ out.avg_points = Div(out.total_points, Max2(out.games_played, 1))
         /\ out.period_avg = Div(out.period_points, Max2(out.period_games, 1))
         /\ out.avg_points.den >= 1 /\ out.period_avg.den >= 1
         /\ out.total_points >= 0 => out.avg_points.num >= 0
         /\ out.period_points >= 0 => out.period_avg.num >= 0
    /\ FormRanked =>
         \A i \in 1..Len(out.rows) :
            LET r == out.rows[i]
            IN /\ r.Avg_Points.den >= 1
               /\ r.Games_Played = 0 => r.Avg_Points.num = 0
               /\ r.Games_Played > 0 => r.Avg_Points = Div(r.Period_Points, r.Games_Played)
               /\ r.Period_Points >= 0 => r.Avg_Points.num >= 0

\* A window with no game played was analysed.
C3_Witness ==
    /\ Analysed
    /\ out.period_games = 0
    /\ out.games_played > 0

Scenario == 1 \in DOMAIN summaries /\ summaries[1] = Fetched(ScenarioSeries)

ScenarioLast3 ==
    /\ Scenario
    /\ call.fn = "show_player_form_analysis"
    /\ ~Truthy(call.from_gameweek)
    /\ call.last_n = 3

DisplayedRounds == {out.display_gws[i].round : i \in 1..Len(out.display_gws)}

\* C8, as claimed: for rounds 1..5 with points 2, 0, 6, 10, 8, all played,
\* the last-3 window is rounds {3, 4, 5}, total 24, 3 games, average 8.0 and
\* the trend "Improving".
C8_ScenarioAsClaimed ==
    ScenarioLast3 =>
        /\ out.status = "analysis"
        /\ DisplayedRounds = {3, 4, 5}
        /\ out.period_points = 24
        /\ out.period_games = 3
        /\ FEq(out.period_avg, IntKey(8))
        /\ out.trend = "Improving"

\* C8, amended: the same window, total, games and average, and the trend
\* "Insufficient data", the window having fewer than 4 rounds.
C8_Scenario ==
    ScenarioLast3 =>
        /\ out.status = "analysis"
        /\ DisplayedRounds = {3, 4, 5}
        /\ out.period_points = 24
        /\ out.period_games = 3
        /\ FEq(out.period_avg, IntKey(8))
        /\ out.trend = "Insufficient data"

C8_Witness == ScenarioLast3 /\ out.status = "analysis"

\* Both bounds of the window were given, and the first exceeds the second.
ReversedWindow ==
    /\ call.from_gameweek /= None
    /\ call.to_gameweek /= None
    /\ Val(call.from_gameweek) > Val(call.to_gameweek)

\* C9: a window given as from > to selects no round in any aggregator: the
\* analysis reports no data for the period, the form ranking counts no
\* points and no games, the chart draws no line.
C9_ReversedWindowEmpty ==
    ReversedWindow =>
        /\ call.fn = "show_player_form_analysis" => out.status /= "analysis"
        /\ FormRanked =>
             \A i \in 1..Len(out.rows) :
                out.rows[i].Period_Points = 0 /\ out.rows[i].Games_Played = 0
        /\ call.fn = "plot_form_comparison" /\ out.status = "plot" => out.lines = <<>>

\* The rounds of the one player's series, and the rounds an aggregator
\* worked on, read off what it printed or drew.
SeriesRounds ==
    {summaries[1].history[i].round : i \in 1..Len(summaries[1].history)}

PointsOn(R) ==
    SumSeq([i \in 1..Len(summaries[1].history) |->
               IF summaries[1].history[i].round \in R
               THEN summaries[1].history[i].total_points ELSE 0])

\* The window by presence of the bounds: the N greatest rounds with no bound,
\* the rounds >= from with from alone, the rounds from..to with both.
PresenceWindow ==
    IF call.from_gameweek = None
    THEN {r \in SeriesRounds : Cardinality({q \in SeriesRounds : q > r}) < call.last_n}
    ELSE IF call.to_gameweek = None
         THEN {r \in SeriesRounds : r >= Val(call.from_gameweek)}
         ELSE {r \in SeriesRounds :
                  r >= Val(call.from_gameweek) /\ r <= Val(call.to_gameweek)}

\* A bound is given as the menu gives it: to only together with from.
BoundsAsListed == call.from_gameweek = None => call.to_gameweek = None

\* C11: the three aggregators work on the window chosen by which bounds are
\* present, for every integer value of the bounds: Last-N with none, the
\* rounds >= from with from alone, the rounds from..to with both.
C11_WindowPrecedence ==
    BoundsAsListed /\ 1 \in DOMAIN summaries =>
        /\ Analysed => DisplayedRounds = PresenceWindow
        /\ call.fn = "show_player_form_analysis" /\ out.status = "no_period_data"
              => PresenceWindow = {}
        /\ FormRanked =>
              \A i \in 1..Len(out.rows) :
                 out.rows[i].Period_Points = PointsOn(PresenceWindow)
        /\ call.fn = "plot_form_comparison" /\ out.status = "plot" =>
              IF out.lines = <<>> THEN PresenceWindow = {}
              ELSE Range(out.lines[1].rounds) = PresenceWindow

----------------------------------------------------------------------------
(* Claims about the ranking functions (SpecRank) *)

RankingFns ==
    {"show_top_players", "show_top_by_pick_rate", "show_top_value_for_money",
     "show_top_form_players"}

Ranked == call.fn \in RankingFns /\ out.status = "table"

\* The call fetches a gameweek series for each player it ranks.
FetchesSeries ==
    \/ call.fn = "show_top_form_players"
    \/ call.fn = "show_top_players" /\ Truthy(call.up_to_gameweek)

\* The rows of the session's collection that pass the filters of the call:
\* position, and for value for money the minimum points.
PassesFilters(r) ==
    /\ call.position /= <<>> => StrLower(r.Position) = StrLower(call.position)
    /\ call.fn = "show_top_value_for_money" => r.Total_Points >= call.min_points

HasSeries(r) ==
    /\ r.Player_ID \in DOMAIN summaries
    /\ summaries[r.Player_ID].ok
    /\ summaries[r.Player_ID].history /= <<>>

Filtered == {i \in 1..Len(players_df) : PassesFilters(players_df[i])}

Ranked_Eligible ==
    {i \in Filtered : FetchesSeries => HasSeries(players_df[i])}

Limit(n, size) == IF n > 0 THEN Min2(n, size) ELSE size

\* C4, as claimed: a ranking function prints min(N, size of the filtered
\* collection) rows when N > 0, and the whole filtered collection when N <= 0.
C4_LengthAsClaimed ==
    Ranked => Len(out.rows) = Limit(call.top_n, Cardinality(Filtered))

\* C4, amended: the collection that counts is the filtered collection
\* without the players whose gameweek series is empty or failed to load, in
\* the functions that fetch series; when none is left there, no row is
\* printed (the call raises).
C4_Length ==
    call.fn \in RankingFns /\ out.status \in {"table", "raised"} =>
        Len(out.rows) = Limit(call.top_n, Cardinality(Ranked_Eligible))

\* A series ranking with a limit N > 0 that dropped a player for lack of a
\* series and printed the other.
C4_Witness ==
    /\ Ranked
    /\ FetchesSeries
    /\ Cardinality(Ranked_Eligible) < Cardinality(Filtered)
    /\ call.top_n > 0
    /\ Len(out.rows) = Cardinality(Ranked_Eligible)

\* The value a row is ranked by: the key the caller chose.
ChosenKey(r) ==
    CASE call.fn = "show_top_form_players" -> IntKey(r.Period_Points)
      [] call.fn = "show_top_by_pick_rate" -> r.Selected_By
      [] call.fn = "show_top_value_for_money" -> Div(r.Total_Points * r.Cost.den, r.Cost.num)
      [] call.fn = "show_top_players" /\ Truthy(call.up_to_gameweek) -> IntKey(r.Points_to_GW)
      [] OTHER -> IntKey(r.Total_Points)

\* C5: the rows a ranking function prints never have a smaller key before a
\* greater one, whatever the window.
C5_NonIncreasing ==
    Ranked =>
        \A i, j \in 1..Len(out.rows) :
            i < j => ~FLess(ChosenKey(out.rows[i]), ChosenKey(out.rows[j]))

IndexOf(id) == CHOOSE i \in 1..Len(players_df) : players_df[i].Player_ID = id

\* C6: rows of equal key are printed in the order they have in the input
\* collection.
C6_Stable ==
    Ranked =>
        \A i, j \in 1..Len(out.rows) :
            i < j /\ FEq(ChosenKey(out.rows[i]), ChosenKey(out.rows[j]))
                => IndexOf(out.rows[i].Player_ID) < IndexOf(out.rows[j].Player_ID)

ValueRanked == call.fn = "show_top_value_for_money" /\ out.status = "table"

RowIds == [i \in 1..Len(out.rows) |-> out.rows[i].Player_ID]

\* C7: value for money drops every record below the minimum points, keeps
\* the others that pass the position filter (all of them when N <= 0), gives
\* each its points per cost and lists the highest first; players A, B, C of
\* the scenario with threshold 50 come out as B (20.0), A (10.0).
C7_ValueForMoney ==
    ValueRanked =>
        /\ \A i \in 1..Len(out.rows) :
              /\ out.rows[i].Total_Points >= call.min_points
              /\ out.rows[i].Value.num * out.rows[i].Cost.num
                    = out.rows[i].Total_Points * out.rows[i].Cost.den * out.rows[i].Value.den
        /\ \A i, j \in 1..Len(out.rows) :
              i < j => out.rows[i].Value.num * out.rows[j].Value.den
                          >= out.rows[j].Value.num * out.rows[i].Value.den
        /\ call.top_n <= 0 => Range(RowIds) = {players_df[i].Player_ID : i \in Filtered}
        /\ (bootstrap = ScenarioSnapshot /\ call.min_points = 50
               /\ call.position = <<>> /\ call.top_n \notin {1}) =>
              /\ RowIds = <<2, 1>>
              /\ FEq(out.rows[1].Value, IntKey(20))
              /\ FEq(out.rows[2].Value, IntKey(10))

C7_Witness ==
    /\ ValueRanked
    /\ bootstrap = ScenarioSnapshot
    /\ call.min_points = 50
    /\ Len(out.rows) = 2

----------------------------------------------------------------------------
(* Claims about the position filter (SpecPos) *)

PositionFns == RankingFns \cup {"show_players_by_position"}

\* The position names of which the string is a casing (one at most).
NamedPositions(str) ==
    {valid_positions[i] : i \in {j \in 1..Len(valid_positions) :
                                    StrLower(valid_positions[j]) = StrLower(str)}}

\* C10: a non-empty position string that is one of the four names in any
\* casing selects exactly the records of that position; any other non-empty
\* string is reported as invalid and gives no ranking; the call leaves the
\* session's player collection as loaded.
C10_PositionFilter ==
    call.fn \in PositionFns /\ call.position /= <<>> =>
        /\ players_df = load_fpl_data(bootstrap)
        /\ IF NamedPositions(call.position) /= {}
           THEN /\ out.status /= "invalid_position"
                /\ Range(RowIds) = {players_df[i].Player_ID :
                                      i \in {j \in 1..Len(players_df) :
                                          players_df[j].Position \in NamedPositions(call.position)}}
           ELSE out.status = "invalid_position" /\ out.rows = <<>>

\* "GOALKEEPER" was given and goalkeepers were listed.
C10_Witness ==
    /\ call.fn = "show_top_value_for_money"
    /\ call.position = UpperThenLower(Goalkeeper, Len(Goalkeeper))
    /\ out.status = "table"
    /\ out.rows /= <<>>
    /\ Len(out.rows) < Len(players_df)

----------------------------------------------------------------------------
(* Claims about the session (Spec) *)

\* The calls that fetch gameweek series.
SeriesCall ==
    \/ call.fn \in {"show_top_form_players", "show_player_form_analysis",
                    "plot_form_comparison"}
    \/ call.fn = "show_top_players" /\ Truthy(call.up_to_gameweek)

\* C12: a call that fetches gameweek series completes without raising,
\* whether the fetch fails or gives an empty history for some or for all of
\* the players, and whether or not there is any player or any ID.
C12_FetchNeverCrashes ==
    SeriesCall => out.status /= "raised"

----------------------------------------------------------------------------
(* Claims about the menu loop (SpecMenu) *)

\* C13: once the snapshot is loaded, every selection 1..18, whatever is
\* typed at its prompts, ends with the menu loop going on (the wait for
\* Enter, then the menu); main() ends only when the load fails or "0" is
\* selected, never with an exception of a selection.
C13_BackToMenu ==
    /\ call.choice \in 1..18 => pc = "wait"
    /\ pc \in {"start", "menu", "wait", "failed", "exited"}

\* C14: when the bulk fetch fails or its answer cannot be parsed, the
\* session ends there: the menu is never shown, no selection is served and
\* no gameweek series is fetched.
C14_LoadFailureEndsSession ==
    ~bootstrap.ok =>
        /\ pc \in {"start", "failed"}
        /\ call = NoCall /\ out = NoOut
        /\ series_fetches = <<>>
        /\ players_df = <<>>

\* The load was tried, failed, and main() returned.
C14_Witness ==
    /\ ~bootstrap.ok
    /\ pc = "failed"
    /\ snapshot_fetches = 1

\* The ids given to a selection that are the id of no record.
UnknownIds ==
    {id \in Range(call.player_ids) : ~KnownPlayer(players_df, id)}

\* C15: a selection that takes a player id (9, 11, 12, 13, 14, 15, 16), given
\* an id of no record of the collection, reports that the player is not
\* found, fetches no gameweek series for that id and produces no history,
\* statistics or chart.
C15_UnknownPlayerStops ==
    call.choice \in {9, 11, 12, 13, 14, 15, 16} /\ UnknownIds /= {} =>
        /\ out.status = "not_found"
        /\ UnknownIds \cap Range(series_fetches) = {}

----------------------------------------------------------------------------
(* Claims about value for money on a cost of 0 (SpecValue) *)

\* C16: value for money computes no ratio for a record whose cost is 0, and
\* lists no such record.
C16_NoZeroCostRanked ==
    ValueRanked =>
        \A i \in 1..Len(out.rows) :
            out.rows[i].Cost.num /= 0 /\ out.rows[i].Value.den /= 0

----------------------------------------------------------------------------
(* Claims about the session's player collection (SpecMenu) *)

\* C17: once loaded, the session's player collection is left as it is by
\* every step of the menu loop: the same records with the same fields; the
\* columns and filters of a query are applied to the query's own frame.
C17_CollectionUnchanged ==
    [][pc /= "start" => players_df' = players_df]_vars

\* Value for money was served for goalkeepers with a threshold: it listed
\* fewer records than the collection holds, each with its value, and the
\* collection is what the loader gave.
C17_Witness ==
    /\ call.choice = 3
    /\ out.status = "table"
    /\ out.rows /= <<>>
    /\ Len(out.rows) < Len(players_df)
    /\ players_df = load_fpl_data(bootstrap)

----------------------------------------------------------------------------
(* Claims about the positions of the loaded collection (SpecLoad) *)

\* C18: whatever the snapshot, every record of the loaded collection has one
\* of the positions Goalkeeper, Defender, Midfielder, Forward, also when the
\* position table has no entry for a player's element type.
C18_PositionOfTheFour ==
    \A i \in 1..Len(players_df) : players_df[i].Position \in Range(valid_positions)

----------------------------------------------------------------------------
(* Claims about the prompts of the menu (SpecMenu) *)

\* A selection with a From-to window called its aggregator.
WindowFromMenu == call.choice \in {16, 17, 18} /\ call.fn /= "none"

\* C19: selections 16, 17 and 18 ask for the ending gameweek until an
\* integer >= the starting gameweek is typed, so the window they hand to the
\* aggregator has both bounds and to >= from >= 1.
C19_MenuWindowOrdered ==
    WindowFromMenu =>
        /\ call.from_gameweek /= None /\ call.to_gameweek /= None
        /\ Val(call.from_gameweek) >= 1
        /\ Val(call.to_gameweek) >= Val(call.from_gameweek)

\* Selection 18 handed on the window from round 2 to round 2 and the chart
\* was drawn.
C19_Witness ==
    /\ WindowFromMenu
    /\ call.choice = 18
    /\ call.from_gameweek = Some(2)
    /\ call.to_gameweek = Some(2)
    /\ out.status = "plot"

----------------------------------------------------------------------------
(* Claims about the requests of a session (SpecMenu) *)

\* The players whose series the served selection works on, in the order it
\* takes them: the ids given to it, or the records that pass its position
\* filter.  Selection 11 ends in the call of its function, before the body
\* that would read a series.
SeriesNeeded ==
    CASE call.choice \in {9, 10, 12, 13, 14, 15, 16, 18} /\ call.fn /= "none"
            -> call.player_ids
      [] call.choice \in {7, 8, 17}
            -> PlayerIDs(SelectSeq(players_df, PassesFilters))
      [] OTHER -> <<>>

\* C20: the snapshot is requested once in a session, by the load that comes
\* before the first menu, and by no selection; a selection requests the
\* series of every player it works on, once for each use, whatever was
\* requested by the selections before it.
C20_FetchLifecycle ==
    /\ snapshot_fetches = (IF pc = "start" THEN 0 ELSE 1)
    /\ call.choice \in 1..18 => series_fetches = SeriesNeeded

\* Player 1 was compared with player 1: the series was requested twice.
C20_Witness ==
    /\ call.choice = 15
    /\ series_fetches = <<1, 1>>
    /\ out.status = "comparison"
    /\ snapshot_fetches = 1

----------------------------------------------------------------------------
(* Claims about the Last-N window (SpecMenu) *)

\* The rounds of a player's series that have fewer than n rounds above them:
\* the n highest, or all of them when there are fewer than n.
HighestRounds(id, n) ==
    LET gw == get_gameweek_history(id)
        rounds == {gw[i].round : i \in 1..Len(gw)}
    IN {r \in rounds : Cardinality({q \in rounds : q > r}) < n}

PointsOfRounds(id, R) ==
    LET gw == get_gameweek_history(id)
    IN SumSeq([i \in 1..Len(gw) |-> IF gw[i].round \in R THEN gw[i].total_points ELSE 0])

\* The numbers that the answers to "Number of recent gameweeks" hold.
CountsTyped == {1, 2}

\* C21: with no bound given, each aggregator works on the N entries of
\* highest round of a player's series, on all of them when the series has
\* fewer than N; N is 5 in the form ranking and the form analysis and 8 in
\* the form chart when no number is given.
C21_LastNWindow ==
    /\ call.choice = 9 /\ out.status = "analysis" =>
          DisplayedRounds = HighestRounds(call.player_ids[1], call.last_n)
    /\ call.choice = 7 /\ out.status = "table" =>
          \A i \in 1..Len(out.rows) :
             /\ out.rows[i].Period_Points =
                   PointsOfRounds(out.rows[i].Player_ID,
                                  HighestRounds(out.rows[i].Player_ID, call.last_n))
             /\ out.rows[i].period_desc = PeriodLast(call.last_n)
    /\ call.choice = 10 /\ out.status = "plot" =>
          \A i \in 1..Len(out.lines) :
             Range(out.lines[i].rounds) =
                HighestRounds(out.lines[i].Player_ID, call.last_n)
    /\ call.choice \in {7, 9} /\ call.last_n \notin CountsTyped => call.last_n = 5
    /\ call.choice = 10 /\ call.fn /= "none" /\ call.last_n \notin CountsTyped
          => call.last_n = 8

\* The analysis of the last round alone of a series of two rounds.
C21_Witness ==
    /\ call.choice = 9
    /\ out.status = "analysis"
    /\ call.last_n = 1
    /\ DisplayedRounds = {2}

----------------------------------------------------------------------------
(* Claims about the ranking up to a gameweek (SpecRank) *)

UpToCall == call.fn = "show_top_players" /\ Truthy(call.up_to_gameweek)

EligibleIds == {players_df[i].Player_ID : i \in Ranked_Eligible}

\* The points of a player over the entries of its series with round <= X.
PointsUpTo(id, X) ==
    PointsOfRounds(id, {r \in HighestRounds(id, Len(get_gameweek_history(id))) : r <= X})

RowsPointsUpTo ==
    \A i \in 1..Len(out.rows) :
        out.rows[i].Points_to_GW
            = PointsUpTo(out.rows[i].Player_ID, Val(call.up_to_gameweek))

\* C22, as claimed: with a gameweek bound X, show_top_players lists exactly
\* the players that pass the position filter and have a non-empty series,
\* each with the sum of its points over the rounds <= X.
C22_UpToAsClaimed ==
    UpToCall =>
        /\ out.status = "table"
        /\ Range(RowIds) = EligibleIds
        /\ RowsPointsUpTo

\* C22, amended: with a bound X that is not 0, the listed players are
\* players that pass the position filter and have a non-empty series, each
\* once and with the sum of its points over the rounds <= X (0 when it has
\* none); all of them are listed when N <= 0, and the N of most points when
\* N > 0 and there are more; when no player passes the filter with a
\* non-empty series the call raises and lists nothing.
C22_UpTo ==
    UpToCall =>
        IF EligibleIds = {}
        THEN out.status = "raised" /\ out.rows = <<>>
        ELSE /\ out.status = "table"
             /\ Range(RowIds) \subseteq EligibleIds
             /\ Len(out.rows) = Limit(call.top_n, Cardinality(EligibleIds))
             /\ Cardinality(Range(RowIds)) = Len(out.rows)
             /\ RowsPointsUpTo
             /\ \A id \in EligibleIds \ Range(RowIds) : \A i \in 1..Len(out.rows) :
                   PointsUpTo(id, Val(call.up_to_gameweek)) <= out.rows[i].Points_to_GW

\* All were asked for; one player was left out for lack of a series and the
\* other is listed with 0 points, its series having no round <= X.
C22_Witness ==
    /\ UpToCall
    /\ out.status = "table"
    /\ call.top_n <= 0
    /\ Len(out.rows) < Cardinality(Filtered)
    /\ \E i \in 1..Len(out.rows) : out.rows[i].Points_to_GW = 0

----------------------------------------------------------------------------
(* Claims about a position that is refused (SpecPos) *)

InvalidPositionGiven ==
    /\ call.fn \in RankingFns
    /\ call.position /= <<>>
    /\ NamedPositions(call.position) = {}

\* C23: in each of the four ranking functions a position that is not one of
\* the four names makes the function return with no gameweek series
\* requested and no table printed.
C23_InvalidPositionFirst ==
    InvalidPositionGiven =>
        /\ out.status = "invalid_position"
        /\ out.rows = <<>>
        /\ series_fetches = <<>>

\* Players were loaded and the ranking up to round 1, which requests a series
\* for each of them, was asked for with a position that is no position.
C23_Witness ==
    /\ InvalidPositionGiven
    /\ call.fn = "show_top_players"
    /\ Truthy(call.up_to_gameweek)
    /\ players_df /= <<>>
    /\ out.status = "invalid_position"

----------------------------------------------------------------------------
(* Claims about the threshold of selection 3 (SpecMenu) *)

\* The number entered at the threshold prompt: the first integer typed that
\* is not negative, whatever empty or negative entries came before it.
EnteredThreshold(lines) ==
    Head(SelectSeq(lines, LAMBDA l : l.kind = "int" /\ l.val >= 0)).val

ThresholdFor(lines) ==
    IF EnteredThreshold(lines) = 0 THEN 50 ELSE EnteredThreshold(lines)

----------------------------------------------------------------------------
(* Claims about the ids of the form comparison (SpecMenu) *)

\* The ids entered in an answer, in the order of entry: the parts that are
\* ids (selection 10 goes on only when every part is an integer; selection
\* 18 skips the parts that are not made of digits).
EnteredIds(parts) ==
    Ints(SelectSeq(parts, LAMBDA p : p.kind = "int" /\ (call.choice = 10 \/ p.val >= 0)))

ComparisonFromMenu == call.choice \in {10, 18} /\ call.fn = "plot_form_comparison"

\* C25: selections 10 and 18 hand plot_form_comparison at most 6 ids; when
\* more than 6 were entered these are the first 6 in the order of entry, and
\* otherwise all the ids entered.
C25_AtMostSixIds ==
    ComparisonFromMenu =>
        /\ Len(call.player_ids) <= 6
        /\ \E parts \in IdAnswers :
              LET entered == EnteredIds(parts)
              IN /\ Len(call.player_ids) = IF Len(entered) > 6 THEN 6 ELSE Len(entered)
                 /\ \A i \in 1..Len(call.player_ids) : call.player_ids[i] = entered[i]

\* Seven ids were entered at selection 18 and the chart was asked for the
\* first six of them.
C25_Witness ==
    /\ ComparisonFromMenu
    /\ call.choice = 18
    /\ Len(call.player_ids) = 6
    /\ \E parts \in IdAnswers :
          /\ Len(EnteredIds(parts)) = 7
          /\ call.player_ids = SubSeq(EnteredIds(parts), 1, 6)

----------------------------------------------------------------------------
(* Claims about the integer prompt (SpecPrompt) *)

\* The line is one the prompt does not accept: text that is no number, a
\* number outside a bound that is given, or nothing when there is no default.
Refused(l) ==
    \/ l.kind = "text"
    \/ l.kind = "empty" /\ call.default = None
    \/ /\ l.kind = "int"
       /\ \/ call.min_val /= None /\ l.val < Val(call.min_val)
          \/ call.max_val /= None /\ l.val > Val(call.max_val)

LastLine == out.lines[Len(out.lines)]

\* C26: get_valid_integer returns only the integer of a line that satisfies
\* every bound that is given, or the default on an empty line; any other
\* line is reported and the prompt is shown again without returning.
C26_PromptReturns ==
    /\ pc = "returned" =>
          /\ \/ /\ LastLine.kind = "int"
                /\ out.value = Some(LastLine.val)
                /\ call.min_val /= None => LastLine.val >= Val(call.min_val)
                /\ call.max_val /= None => LastLine.val <= Val(call.max_val)
             \/ /\ LastLine.kind = "empty"
                /\ call.default /= None
                /\ out.value = call.default
          /\ \A i \in 1..(Len(out.lines) - 1) : Refused(out.lines[i])
    /\ pc = "prompt" =>
          /\ out.value = None
          /\ \A i \in 1..Len(out.lines) : Refused(out.lines[i])
          /\ out.lines /= <<>> => out.status = Reported(LastLine)

\* With both bounds and no default: an empty line, then a number above the
\* maximum, then a number within the bounds, which is returned.
C26_Witness ==
    /\ pc = "returned"
    /\ call.min_val /= None /\ call.max_val /= None /\ call.default = None
    /\ Len(out.lines) = 3
    /\ out.lines[1].kind = "empty"
    /\ out.lines[2].kind = "int" /\ out.lines[2].val > Val(call.max_val)
    /\ out.value = Some(LastLine.val)

====
